---- MODULE Spec2Model ----
(***************************************************************************)
(* Model of homeassistant/components/solax/sensor.py: the entry setup, the *)
(* RealTimeDataEndpoint poller with its readiness Event, and the           *)
(* InverterEntity value holders it fans snapshots out to.                  *)
(*                                                                         *)
(* The code runs on one asyncio event loop.  A coroutine is only suspended *)
(* at an await, and async_refresh has exactly one: api.get_data().  Each   *)
(* call of async_refresh is therefore two atomic steps: the call up to the *)
(* await (TimerFire, or the job scheduled by SetupEntry), and the          *)
(* resumption with the result of the fetch up to the return or the raise   *)
(* (FetchSucceeds, FetchFails).  How long a fetch takes is left open.      *)
(***************************************************************************)
EXTENDS Integers, Sequences, FiniteSets, TLC

\* Number of timer callbacks the model lets the 30-second interval fire.
MaxTimerFires == 2

\* InverterEntity.value before the first write (self.value = None).
None == -1

\* Keys of api.inverter.sensor_map(), in iteration order.
Catalog == <<"soc", "pv1_power">>

Keys == {Catalog[n] : n \in 1..Len(Catalog)}

\* Readings the inverter may report for a key.
Values == {42, 50, 1200}

\* api_response.data: a mapping from some of the keys to readings.
Snapshots == UNION {[D -> Values] : D \in SUBSET Keys}

\* The local api_response of a call that has not (or not successfully) fetched.
NoData == [k \in {} |-> None]

VARIABLES
    phase,          \* position of async_setup_entry: "setup", "failed", "running"
    setupExc,       \* exception async_setup_entry let escape, or "none"
    ready,          \* endpoint.ready (asyncio.Event): is it set
    sensors,        \* endpoint.sensors: sequence of [key, value, updates]
    calls,          \* the calls of async_refresh, in the order they started
    lastCompleted   \* index in calls of the call that returned or raised last, 0 if none

vars == <<phase, setupExc, ready, sensors, calls, lastCompleted>>

\* InverterEntity.__init__: the key and an empty value; updates counts the
\* async_schedule_update_ha_state() calls made on the entity.
InverterEntity(key) == [key |-> key, value |-> None, updates |-> 0]

\* A call of async_refresh suspended at `await self.api.get_data()`.
NewCall(now) == [now |-> now, pc |-> "fetch", ok |-> FALSE, data |-> NoData, exc |-> "none"]

\* Variant of the loop body that notifies without assigning the value.
SensorAfterNoWrite(s, data) ==
    IF s.key \in DOMAIN data
    THEN [s EXCEPT !.updates = @ + 1]
    ELSE s

\* Variant of the loop body that reads data.get(key) for every sensor.
SensorAfterGet(s, data) ==
    IF s.key \in DOMAIN data
    THEN [s EXCEPT !.value = data[s.key], !.updates = @ + 1]
    ELSE [s EXCEPT !.value = None, !.updates = @ + 1]

\* Body of the loop over self.sensors, for one sensor.
SensorAfter(s, data) ==
    IF s.key \in DOMAIN data
    THEN [s EXCEPT !.value = data[s.key], !.updates = @ + 1]
    ELSE s

\* Variant of the loop that is left after the first sensor.
ApplySnapshotFirstOnly(sens, data) ==
    [n \in DOMAIN sens |-> IF n = 1 THEN SensorAfter(sens[n], data) ELSE sens[n]]

\* for sensor in self.sensors: ...
ApplySnapshot(sens, data) ==
    [n \in DOMAIN sens |-> SensorAfter(sens[n], data)]

\* Variant of the handler that forgets self.ready.clear().
ReadyAfterFailureKept(now, rdy) ==
    rdy

\* except InverterError: `if now is not None: self.ready.clear()`.
ReadyAfterFailure(now, rdy) ==
    IF now # "None" THEN FALSE ELSE rdy

\* Variant of the handler that returns whatever the origin of the call.
FailedCallSwallowed(c) ==
    [c EXCEPT !.pc = "returned"]

\* except InverterError: return when scheduled, else raise PlatformNotReady.
FailedCall(c) ==
    IF c.now # "None"
    THEN [c EXCEPT !.pc = "returned"]
    ELSE [c EXCEPT !.pc = "raised", !.exc = "PlatformNotReady"]

Init ==
    /\ phase = "setup"
    /\ setupExc = "none"
    /\ ready = FALSE
    /\ sensors = <<>>
    /\ calls = <<>>
    /\ lastCompleted = 0

\* async_setup_entry: the initial `await api.get_data()` raises InverterError;
\* nothing catches it, so it leaves async_setup_entry.
SetupFetchFails ==
    /\ phase = "setup"
    /\ phase' = "failed"
    /\ setupExc' = "InverterError"
    /\ UNCHANGED <<ready, sensors, calls, lastCompleted>>

\* async_setup_entry after a successful initial fetch: the endpoint is built
\* (Event unset), async_refresh is scheduled as a job with now = None, the
\* interval is registered, one entity per catalog key is created.
SetupEntry ==
    /\ phase = "setup"
    /\ phase' = "running"
    /\ ready' = FALSE
    /\ sensors' = [n \in 1..Len(Catalog) |-> InverterEntity(Catalog[n])]
    /\ calls' = <<NewCall("None")>>
    /\ UNCHANGED <<setupExc, lastCompleted>>

\* The interval registered by async_track_time_interval elapses: the host
\* calls endpoint.async_refresh(now), which runs up to the await.  Nothing in
\* the file makes the callback wait for a refresh that is still fetching.
TimerFire ==
    /\ phase = "running"
    /\ Len(calls) < 1 + MaxTimerFires
    /\ calls' = Append(calls, NewCall("now"))
    /\ UNCHANGED <<phase, setupExc, ready, sensors, lastCompleted>>

\* get_data() returns a response: ready.set(), then the loop over the sensors,
\* then the return; no await in between.
FetchSucceeds(i, data) ==
    /\ calls[i].pc = "fetch"
    /\ ready' = TRUE
    /\ sensors' = ApplySnapshot(sensors, data)
    /\ calls' = [calls EXCEPT ![i] = [@ EXCEPT !.pc = "returned", !.ok = TRUE, !.data = data]]
    /\ lastCompleted' = i
    /\ UNCHANGED <<phase, setupExc>>

\* Variant of the failure path that also blanks the entities.
FetchFailsBlanking(i) ==
    /\ calls[i].pc = "fetch"
    /\ ready' = ReadyAfterFailure(calls[i].now, ready)
    /\ calls' = [calls EXCEPT ![i] = FailedCall(@)]
    /\ lastCompleted' = i
    /\ sensors' = [n \in DOMAIN sensors |-> [sensors[n] EXCEPT !.value = None]]
    /\ UNCHANGED <<phase, setupExc>>

\* get_data() raises InverterError.
FetchFails(i) ==
    /\ calls[i].pc = "fetch"
    /\ ready' = ReadyAfterFailure(calls[i].now, ready)
    /\ calls' = [calls EXCEPT ![i] = FailedCall(@)]
    /\ lastCompleted' = i
    /\ UNCHANGED <<phase, setupExc, sensors>>

Next ==
    \/ SetupFetchFails
    \/ SetupEntry
    \/ TimerFire
    \/ \E i \in DOMAIN calls : \E data \in Snapshots : FetchSucceeds(i, data)
    \/ \E i \in DOMAIN calls : FetchFails(i)

Spec == Init /\ [][Next]_vars

(***************************************************************************)
(* Properties                                                              *)
(***************************************************************************)

\* The call i resumes from its fetch in this step and returns or raises.
Completes(i) == calls[i].pc = "fetch" /\ calls'[i].pc # "fetch"

\* Calls that have returned or raised.
Completed == {i \in DOMAIN calls : calls[i].pc # "fetch"}

\* Calls whose fetch succeeded.
Succeeded == {i \in DOMAIN calls : calls[i].ok}

\* The value of the entity for a key.
ValueOf(key) == sensors[CHOOSE n \in DOMAIN sensors : sensors[n].key = key].value

\* The snapshots of the scenario.
Snapshot1 == [k \in {"soc"} |-> 42]
Snapshot2 == [k \in {"soc", "pv1_power"} |-> IF k = "soc" THEN 50 ELSE 1200]

\* C1: when a refresh of either origin whose fetch succeeded with snapshot S
\* has returned, every entity whose key is in S holds S[key]; the snapshot
\* {soc: 42} applied first leaves soc = 42 and pv1_power = None, and the
\* snapshot {soc: 50, pv1_power: 1200} leaves soc = 50 and pv1_power = 1200.
C1_SnapshotValuesHeld ==
    \A i \in DOMAIN calls :
        (lastCompleted = i /\ calls[i].ok) =>
            /\ \A n \in DOMAIN sensors :
                   sensors[n].key \in DOMAIN calls[i].data =>
                       sensors[n].value = calls[i].data[sensors[n].key]
            /\ (calls[i].data = Snapshot1 /\ Succeeded = {i}) =>
                   (ValueOf("soc") = 42 /\ ValueOf("pv1_power") = None)
            /\ calls[i].data = Snapshot2 =>
                   (ValueOf("soc") = 50 /\ ValueOf("pv1_power") = 1200)

\* The scenario has run: {soc: 42} was applied, then {soc: 50, pv1_power: 1200}.
C1_Witness ==
    \E i, j \in DOMAIN calls :
        /\ i # j
        /\ Completed = {i, j}
        /\ calls[i].ok /\ calls[i].data = Snapshot1
        /\ calls[j].ok /\ calls[j].data = Snapshot2
        /\ lastCompleted = j
        /\ ValueOf("soc") = 50 /\ ValueOf("pv1_power") = 1200

\* C2: a refresh whose fetch succeeds with snapshot S leaves every entity
\* whose key is not in S with the value it had, and notifies no such entity.
C2_AbsentKeysUntouched ==
    [][\A i \in DOMAIN calls :
          (Completes(i) /\ calls'[i].ok) =>
              \A n \in DOMAIN sensors :
                  sensors[n].key \notin DOMAIN calls'[i].data =>
                      /\ sensors'[n].value = sensors[n].value
                      /\ sensors'[n].updates = sensors[n].updates]_vars

\* A snapshot without a key was applied over an entity that already had a value.
C2_Witness ==
    \E i \in DOMAIN calls : \E n \in DOMAIN sensors :
        /\ lastCompleted = i /\ calls[i].ok
        /\ sensors[n].key \notin DOMAIN calls[i].data
        /\ sensors[n].value # None
        /\ sensors[n].updates > 0

\* C3: after any refresh has completed, the readiness flag equals whether the
\* fetch of the call that completed last succeeded.
C3_ReadyIsLastOutcome ==
    lastCompleted # 0 => ready = calls[lastCompleted].ok

\* C4: a timer-triggered refresh whose fetch fails returns without raising
\* and leaves the readiness flag false.
C4_ScheduledFailureSwallowed ==
    [][\A i \in DOMAIN calls :
          (Completes(i) /\ ~calls'[i].ok /\ calls[i].now # "None") =>
              /\ calls'[i].pc = "returned"
              /\ calls'[i].exc = "none"
              /\ ready' = FALSE]_vars

\* A timer-triggered refresh failed after an earlier refresh had succeeded.
C4_Witness ==
    \E i \in DOMAIN calls :
        /\ lastCompleted = i
        /\ calls[i].now # "None"
        /\ calls[i].pc = "returned" /\ ~calls[i].ok
        /\ Succeeded # {}
        /\ ready = FALSE

\* C5: a startup-triggered refresh whose fetch fails raises PlatformNotReady
\* and mutates no entity.
C5_StartupFailureRaises ==
    [][\A i \in DOMAIN calls :
          (Completes(i) /\ ~calls'[i].ok /\ calls[i].now = "None") =>
              /\ calls'[i].pc = "raised"
              /\ calls'[i].exc = "PlatformNotReady"
              /\ sensors' = sensors]_vars

\* The startup-triggered refresh has failed while an entity held a reading.
C5_Witness ==
    \E i \in DOMAIN calls :
        /\ calls[i].now = "None"
        /\ calls[i].pc = "raised"
        /\ calls[i].exc = "PlatformNotReady"
        /\ lastCompleted = i
        /\ \E n \in DOMAIN sensors : sensors[n].value # None

\* C6: at most one call of async_refresh is between its start and its return.
C6_NoConcurrentRefresh ==
    Cardinality({i \in DOMAIN calls : calls[i].pc = "fetch"}) <= 1

\* C7: the host sees no error other than PlatformNotReady, whichever fetch fails.
C7_OnlyNotReadyEscapes ==
    /\ setupExc \in {"none", "PlatformNotReady"}
    /\ \A i \in DOMAIN calls : calls[i].exc \in {"none", "PlatformNotReady"}

\* C8: a refresh whose fetch fails, of either origin, leaves the value of
\* every entity unchanged and notifies none.
C8_FailureLeavesValues ==
    [][\A i \in DOMAIN calls :
          (Completes(i) /\ ~calls'[i].ok) =>
              \A n \in DOMAIN sensors :
                  /\ sensors'[n].value = sensors[n].value
                  /\ sensors'[n].updates = sensors[n].updates]_vars

\* A timer-triggered refresh failed while the entities held readings.
C8_Witness ==
    \E i \in DOMAIN calls :
        /\ lastCompleted = i
        /\ calls[i].pc = "returned" /\ ~calls[i].ok
        /\ \A n \in DOMAIN sensors : sensors[n].value # None

\* C9: when every snapshot applied so far contains every catalog key, the
\* entities together hold the values of one single snapshot, never a mix.
C9_NoMixedSnapshots ==
    (Succeeded # {} /\ \A i \in Succeeded : DOMAIN calls[i].data = Keys) =>
        \E i \in Succeeded :
            \A n \in DOMAIN sensors : sensors[n].value = calls[i].data[sensors[n].key]

\* Two refreshes overlapped in their fetch (the one started first returned
\* last) with complete snapshots that differ on every key.
C9_Witness ==
    \E i, j \in Succeeded :
        /\ i < j
        /\ lastCompleted = i
        /\ DOMAIN calls[i].data = Keys /\ DOMAIN calls[j].data = Keys
        /\ \A k \in Keys : calls[i].data[k] # calls[j].data[k]

\* C10: once no refresh is in flight, the entities whose key is in the
\* snapshot of the most recently started successful refresh hold that
\* snapshot's values, and the readiness flag is the outcome of the most
\* recently started fetch.
C10_StartOrderWins ==
    (calls # <<>> /\ Completed = DOMAIN calls) =>
        /\ ready = calls[Len(calls)].ok
        /\ Succeeded # {} =>
               LET m == CHOOSE i \in Succeeded : \A j \in Succeeded : j <= i
               IN  \A n \in DOMAIN sensors :
                       sensors[n].key \in DOMAIN calls[m].data =>
                           sensors[n].value = calls[m].data[sensors[n].key]

====
